---- MODULE Spec2Model ----
(***************************************************************************)
(* Model of src/matches.py: the Gale-Shapley proposal loop (doMatch) and   *)
(* its greedy variant (doGreedyMatch), with the agent classes Person,      *)
(* Proposer and Proposee.  One step of the model is one iteration of the   *)
(* `while len(unmatched) > 0` loop, so every state is a quiescent point    *)
(* between iterations.                                                     *)
(***************************************************************************)
EXTENDS Integers, Sequences, FiniteSets, TLC

\* ---------------------------------------------------------------- bounds
\* the number of lines of the proposer file
NumProposers == 2

\* ----------------------------------------------------------- identifiers
\* the proposers in file order, which is the initial order of `unmatched`
ProposerNames == <<"A", "B", "C", "D">>

Proposers == {ProposerNames[i] : i \in 1..NumProposers}
Proposees == {"X", "Y"}

\* a proposer lists at most as many names as there are proposees; a proposee
\* may list every proposer
MaxPrefLen == Cardinality(Proposees)

\* an identifier a proposer may list although no proposee carries it
UnknownIds == {"Z"}

Agents == Proposers \cup Proposees

\* Python's None, for `partner` (a name) and for `rank` (an int)
None == "None"
NoRank == -1
\* the value the dump branch writes into mOld.rank
DumpedRank == 0

Modes == {"stable", "greedy"}

VARIABLES
    mode,           \* which driver runs: doMatch or doGreedyMatch
    priorities,     \* Person.priorities of every agent (the parsed input)
    ranking,        \* Proposee.ranking: name -> 0-based position
    unmatched,      \* the list `unmatched` of proposer names
    partner,        \* Person.partner of every agent
    rank,           \* Person.rank of every agent
    proposalIndex,  \* Proposer.proposalIndex
    pc,             \* "loop": in the while loop, "done": loop left,
                    \* "error": the run died with a KeyError
    iterations,     \* history: number of loop iterations executed
    exhausted,      \* history: proposers removed by the `n is None` branch
    proposals,      \* history: the <<proposer, goal>> pairs proposed so far
    fifo            \* history: every iteration so far picked unmatched[0]

vars == <<mode, priorities, ranking, unmatched, partner, rank, proposalIndex, pc,
          iterations, exhausted, proposals, fifo>>

\* ------------------------------------------------------------ the input
Range(seq) == {seq[k] : k \in 1..Len(seq)}

\* non-empty duplicate-free preference lists over S of at most mx entries,
\* as parseFile yields for a line `name: a,b`
PrefLists(S, mx) ==
    UNION {{l \in [1..n -> S] : \A j, k \in 1..n : j /= k => l[j] /= l[k]}
           : n \in 1..mx}

\* identifiers are self-consistent between the two files
WellFormed == \A p \in Proposers : Range(priorities[p]) \subseteq Proposees

\* ------------------------------------------------------ the agent model
\* Proposee.__init__: the reverse lookup built from a list of priorities, a
\* later position overwriting an earlier one
reverseLookup(prio) ==
    [s \in Range(prio) |->
        (CHOOSE k \in 1..Len(prio) :
            /\ prio[k] = s
            /\ \A j \in 1..Len(prio) : prio[j] = s => j <= k) - 1]

\* nextProposal without `self.proposalIndex += 1`
nextProposal_NoAdvance(p, s) ==
    IF s.proposalIndex[p] >= Len(priorities[p])
    THEN [goal |-> None, proposalIndex |-> s.proposalIndex[p]]
    ELSE [goal |-> priorities[p][s.proposalIndex[p] + 1],
          proposalIndex |-> s.proposalIndex[p]]

\* Proposer.nextProposal: the goal (or None) and the cursor afterwards
nextProposal(p, s) ==
    IF s.proposalIndex[p] >= Len(priorities[p])
    THEN [goal |-> None, proposalIndex |-> s.proposalIndex[p]]
    ELSE [goal |-> priorities[p][s.proposalIndex[p] + 1],
          proposalIndex |-> s.proposalIndex[p] + 1]

\* evaluateProposal without the comparison with the current partner:
\* a partnered proposee never accepts
evaluateProposal_NoDisplace(q, suitor, s) ==
    IF suitor \in DOMAIN ranking[q]
    THEN IF s.partner[q] = None
         THEN [accept |-> TRUE, rank |-> ranking[q][suitor] + 1]
         ELSE [accept |-> FALSE, rank |-> s.rank[q]]
    ELSE [accept |-> FALSE, rank |-> s.rank[q]]

\* evaluateProposal accepting every listed suitor
evaluateProposal_AnyListed(q, suitor, s) ==
    IF suitor \in DOMAIN ranking[q]
    THEN [accept |-> TRUE, rank |-> ranking[q][suitor] + 1]
    ELSE [accept |-> FALSE, rank |-> s.rank[q]]

\* evaluateProposal storing the 0-based position as the rank
evaluateProposal_ZeroBased(q, suitor, s) ==
    IF suitor \in DOMAIN ranking[q]
    THEN IF s.partner[q] = None \/ ranking[q][suitor] < ranking[q][s.partner[q]]
         THEN [accept |-> TRUE, rank |-> ranking[q][suitor]]
         ELSE [accept |-> FALSE, rank |-> s.rank[q]]
    ELSE [accept |-> FALSE, rank |-> s.rank[q]]

\* evaluateProposal comparing with > instead of <
evaluateProposal_Reversed(q, suitor, s) ==
    IF suitor \in DOMAIN ranking[q]
    THEN IF s.partner[q] = None \/ ranking[q][suitor] > ranking[q][s.partner[q]]
         THEN [accept |-> TRUE, rank |-> ranking[q][suitor] + 1]
         ELSE [accept |-> FALSE, rank |-> s.rank[q]]
    ELSE [accept |-> FALSE, rank |-> s.rank[q]]

\* evaluateProposal assigning self.rank before the comparison
evaluateProposal_RankOnReject(q, suitor, s) ==
    IF suitor \in DOMAIN ranking[q]
    THEN IF s.partner[q] = None \/ ranking[q][suitor] < ranking[q][s.partner[q]]
         THEN [accept |-> TRUE, rank |-> ranking[q][suitor] + 1]
         ELSE [accept |-> FALSE, rank |-> ranking[q][suitor] + 1]
    ELSE [accept |-> FALSE, rank |-> s.rank[q]]

\* evaluateProposal comparing with <= instead of <
evaluateProposal_NonStrict(q, suitor, s) ==
    IF suitor \in DOMAIN ranking[q]
    THEN IF s.partner[q] = None \/ ranking[q][suitor] <= ranking[q][s.partner[q]]
         THEN [accept |-> TRUE, rank |-> ranking[q][suitor] + 1]
         ELSE [accept |-> FALSE, rank |-> s.rank[q]]
    ELSE [accept |-> FALSE, rank |-> s.rank[q]]

\* Proposee.evaluateProposal: the returned bool and self.rank afterwards
evaluateProposal(q, suitor, s) ==
    IF suitor \in DOMAIN ranking[q]
    THEN IF s.partner[q] = None \/ ranking[q][suitor] < ranking[q][s.partner[q]]
         THEN [accept |-> TRUE, rank |-> ranking[q][suitor] + 1]
         ELSE [accept |-> FALSE, rank |-> s.rank[q]]
    ELSE [accept |-> FALSE, rank |-> s.rank[q]]

\* evaluateGreedily with the stable policy's comparison
evaluateGreedily_Displace(q, suitor, s) ==
    IF suitor \in DOMAIN ranking[q]
    THEN IF s.partner[q] = None \/ ranking[q][suitor] < ranking[q][s.partner[q]]
         THEN [accept |-> TRUE, rank |-> ranking[q][suitor] + 1]
         ELSE [accept |-> FALSE, rank |-> s.rank[q]]
    ELSE [accept |-> FALSE, rank |-> s.rank[q]]

\* evaluateGreedily without `if suitor in self.ranking`
evaluateGreedily_NoListCheck(q, suitor, s) ==
    IF s.partner[q] = None
    THEN [accept |-> TRUE,
          rank |-> IF suitor \in DOMAIN ranking[q]
                   THEN ranking[q][suitor] + 1 ELSE s.rank[q]]
    ELSE [accept |-> FALSE, rank |-> s.rank[q]]

\* Proposee.evaluateGreedily
evaluateGreedily(q, suitor, s) ==
    IF suitor \in DOMAIN ranking[q]
    THEN IF s.partner[q] = None
         THEN [accept |-> TRUE, rank |-> ranking[q][suitor] + 1]
         ELSE [accept |-> FALSE, rank |-> s.rank[q]]
    ELSE [accept |-> FALSE, rank |-> s.rank[q]]

\* ---------------------------------------------------- the matching loop
\* the acceptance policy each driver calls: doMatch calls evaluateProposal
\* (line 193), doGreedyMatch calls evaluateGreedily (line 263)
Evaluate(policy, q, suitor, s) ==
    IF policy = "stable" THEN evaluateProposal(q, suitor, s)
    ELSE evaluateGreedily(q, suitor, s)

\* list.pop() with no index: the last entry goes
Pop_Last(seq, i) == [k \in 1..(Len(seq) - 1) |-> seq[k]]

\* list.pop(i - 1)
Pop(seq, i) == [k \in 1..(Len(seq) - 1) |-> IF k < i THEN seq[k] ELSE seq[k + 1]]

\* the mutable state of a run, as one record
State ==
    [unmatched |-> unmatched, partner |-> partner, rank |-> rank,
     proposalIndex |-> proposalIndex, pc |-> pc]

\* the state after construction: lines 163-177
InitState ==
    [unmatched |-> [k \in 1..NumProposers |-> ProposerNames[k]],
     partner |-> [a \in Agents |-> None],
     rank |-> [a \in Agents |-> NoRank],
     proposalIndex |-> [p \in Proposers |-> 0],
     pc |-> "loop"]

\* which branch the loop body takes when it picks unmatched[i]
Branch(s, i, policy) ==
    LET m == s.unmatched[i]
        np == nextProposal(m, s)
    IN  IF np.goal = None THEN "exhausted"
        ELSE IF np.goal \notin Proposees THEN "keyerror"
        ELSE IF Evaluate(policy, np.goal, m, s).accept THEN "accept"
        ELSE "reject"

\* the dump without `unmatched.append(mOld.name)`
Dump_NoRequeue(s, mOld) ==
    [s EXCEPT !.partner[mOld] = None,
              !.rank[mOld] = DumpedRank]

\* the dump without `mOld.partner = None`
Dump_KeepPartner(s, mOld) ==
    [s EXCEPT !.rank[mOld] = DumpedRank,
              !.unmatched = Append(s.unmatched, mOld)]

\* the dump restarting the dumped proposer at the top of its list
Dump_ResetCursor(s, mOld) ==
    [s EXCEPT !.partner[mOld] = None,
              !.rank[mOld] = DumpedRank,
              !.proposalIndex[mOld] = 0,
              !.unmatched = Append(s.unmatched, mOld)]

\* `previous partner is getting dumped`
Dump(s, mOld) ==
    [s EXCEPT !.partner[mOld] = None,
              !.rank[mOld] = DumpedRank,
              !.unmatched = Append(s.unmatched, mOld)]

\* `proposees[n]` returning nothing instead of raising
KeyErrorRaised_Ignored(s) == s

\* `proposees[n]` for a name that is not a key: KeyError ends the run
KeyErrorRaised(s) == [s EXCEPT !.pc = "error"]

\* one iteration of the while loop on the proposer at position i of
\* `unmatched` (the code picks i = 1, `unmatched[0]`)
LoopBody(s, i, policy) ==
    LET m == s.unmatched[i]
        np == nextProposal(m, s)
        s1 == [s EXCEPT !.proposalIndex[m] = np.proposalIndex]
        who == np.goal
        ev == Evaluate(policy, who, m, s1)
        mOld == s.partner[who]
    IN  IF np.goal = None
        THEN [s1 EXCEPT !.unmatched = Pop(@, i)]
        ELSE IF np.goal \notin Proposees
        THEN KeyErrorRaised(s1)
        ELSE IF ~ev.accept
        THEN [s1 EXCEPT !.rank[who] = ev.rank]
        ELSE IF mOld /= None
        THEN [Dump(s1, mOld) EXCEPT !.rank[who] = ev.rank,
                                    !.unmatched = Pop(@, i),
                                    !.partner[who] = m,
                                    !.partner[m] = who,
                                    !.rank[m] = np.proposalIndex]
        ELSE [s1 EXCEPT !.rank[who] = ev.rank,
                        !.unmatched = Pop(@, i),
                        !.partner[who] = m,
                        !.partner[m] = who,
                        !.rank[m] = np.proposalIndex]

doMatch(s, i) == LoopBody(s, i, "stable")

doGreedyMatch(s, i) == LoopBody(s, i, "greedy")

Iterate(s, i) == IF mode = "stable" THEN doMatch(s, i) ELSE doGreedyMatch(s, i)

BranchOf(s, i) == Branch(s, i, mode)

\* ------------------------------------------------------------- actions
\* the loop body is evaluated once per step (\E s \in {...}) and its result
\* written back to the variables
Commit(s) ==
    /\ unmatched' = s.unmatched
    /\ partner' = s.partner
    /\ rank' = s.rank
    /\ proposalIndex' = s.proposalIndex
    /\ pc' = s.pc

Init ==
    /\ mode \in Modes
    /\ \E pp \in [Proposers -> PrefLists(Proposees \cup UnknownIds, MaxPrefLen)],
          qq \in [Proposees -> PrefLists(Proposers, NumProposers)] :
            priorities = [a \in Agents |-> IF a \in Proposers THEN pp[a] ELSE qq[a]]
    /\ ranking = [q \in Proposees |-> reverseLookup(priorities[q])]
    /\ unmatched = InitState.unmatched
    /\ partner = InitState.partner
    /\ rank = InitState.rank
    /\ proposalIndex = InitState.proposalIndex
    /\ pc = InitState.pc
    /\ iterations = 0
    /\ exhausted = {}
    /\ proposals = {}
    /\ fifo = TRUE

Proposal(i) == <<unmatched[i], nextProposal(unmatched[i], State).goal>>

\* `n is None`: the proposer is dropped from `unmatched`
NoMoreOptionsAt(i) ==
    /\ pc = "loop"
    /\ i \in 1..Len(unmatched)
    /\ BranchOf(State, i) = "exhausted"
    /\ \E s \in {Iterate(State, i)} : Commit(s)
    /\ iterations' = iterations + 1
    /\ exhausted' = exhausted \cup {unmatched[i]}
    /\ fifo' = (fifo /\ i = 1)
    /\ UNCHANGED <<mode, priorities, ranking, proposals>>

\* `proposees[n]` for a name no proposee carries
KeyErrorAt(i) ==
    /\ pc = "loop"
    /\ i \in 1..Len(unmatched)
    /\ BranchOf(State, i) = "keyerror"
    /\ \E s \in {Iterate(State, i)} : Commit(s)
    /\ iterations' = iterations + 1
    /\ proposals' = proposals \cup {Proposal(i)}
    /\ fifo' = (fifo /\ i = 1)
    /\ UNCHANGED <<mode, priorities, ranking, exhausted>>

AcceptsAt(i) ==
    /\ pc = "loop"
    /\ i \in 1..Len(unmatched)
    /\ BranchOf(State, i) = "accept"
    /\ \E s \in {Iterate(State, i)} : Commit(s)
    /\ iterations' = iterations + 1
    /\ proposals' = proposals \cup {Proposal(i)}
    /\ fifo' = (fifo /\ i = 1)
    /\ UNCHANGED <<mode, priorities, ranking, exhausted>>

RejectsAt(i) ==
    /\ pc = "loop"
    /\ i \in 1..Len(unmatched)
    /\ BranchOf(State, i) = "reject"
    /\ \E s \in {Iterate(State, i)} : Commit(s)
    /\ iterations' = iterations + 1
    /\ proposals' = proposals \cup {Proposal(i)}
    /\ fifo' = (fifo /\ i = 1)
    /\ UNCHANGED <<mode, priorities, ranking, exhausted>>

\* `while len(unmatched) > 0` fails: the final report follows
LoopExit ==
    /\ pc = "loop"
    /\ Len(unmatched) = 0
    /\ pc' = "done"
    /\ UNCHANGED <<mode, priorities, ranking, unmatched, partner, rank, proposalIndex,
                   iterations, exhausted, proposals, fifo>>

NoMoreOptions == NoMoreOptionsAt(1)
KeyError == KeyErrorAt(1)
Accepts == AcceptsAt(1)
Rejects == RejectsAt(1)

Next == NoMoreOptions \/ KeyError \/ Accepts \/ Rejects \/ LoopExit

Spec == Init /\ [][Next]_vars

\* the runs on self-consistent input, where `proposees[n]` cannot fail; the
\* program is sequential and keeps running until the loop is left
InitValid == Init /\ WellFormed

NextValid == NoMoreOptions \/ Accepts \/ Rejects \/ LoopExit

FairSpec == InitValid /\ [][NextValid]_vars /\ WF_vars(NextValid)

\* the same loop with the comment `pick arbitrary unmatched employer` taken
\* literally: any position of `unmatched` may be picked, on self-consistent
\* input
NextAnyOrder ==
    \/ \E i \in 1..Len(unmatched) :
          NoMoreOptionsAt(i) \/ AcceptsAt(i) \/ RejectsAt(i)
    \/ LoopExit

SpecAnyOrder == InitValid /\ [][NextAnyOrder]_vars

\* the run of the code itself (always position 1) as a function of the input
RECURSIVE Run(_)
Run(s) ==
    IF s.pc /= "loop" \/ Len(s.unmatched) = 0 THEN s ELSE Run(Iterate(s, 1))

FifoFinal == Run(InitState)

\* printPairings: the loop over proposerPref.values(), one proposer per step
RECURSIVE printPairingsFrom(_, _, _)
printPairingsFrom(s, k, acc) ==
    IF k > NumProposers THEN acc
    ELSE LET prop == ProposerNames[k]
         IN  IF s.partner[prop] /= None
             THEN printPairingsFrom(s, k + 1,
                    [proposerUtility |-> acc.proposerUtility + s.rank[prop],
                     proposeeUtility |-> acc.proposeeUtility
                                           + s.rank[s.partner[prop]],
                     totalUtility    |-> acc.totalUtility + s.rank[prop]
                                           + s.rank[s.partner[prop]],
                     matchCt         |-> acc.matchCt + 1])
             ELSE printPairingsFrom(s, k + 1, acc)

\* printPairings counting a matching for every proposer
printPairings_CountsAll(s) ==
    [printPairingsFrom(s, 1, [totalUtility |-> 0, proposerUtility |-> 0,
                              proposeeUtility |-> 0, matchCt |-> 0])
        EXCEPT !.matchCt = NumProposers]

\* printPairings: the figures of the report
printPairings(s) ==
    printPairingsFrom(s, 1, [totalUtility |-> 0, proposerUtility |-> 0,
                             proposeeUtility |-> 0, matchCt |-> 0])


\* ================================================================ claims
\* 1-based position of b in a's preference list
Pos(a, b) == CHOOSE k \in 1..Len(priorities[a]) : priorities[a][k] = b

Lists(a, b) == b \in Range(priorities[a])

RECURSIVE SumLens(_)
SumLens(S) ==
    IF S = {} THEN 0
    ELSE LET p == CHOOSE x \in S : TRUE
         IN  Len(priorities[p]) + SumLens(S \ {p})

\* the proposer at the head of `unmatched` is about to propose to n
Proposing(n) ==
    /\ pc = "loop"
    /\ Len(unmatched) > 0
    /\ nextProposal(unmatched[1], State).goal = n

\* C1: stable mode, terminal state: no matched proposer p with partner q has
\* a proposee r it ranks before q that lists p and is unpartnered or ranks p
\* strictly before its own partner.
C1_NoBlockingPairForMatched ==
    (mode = "stable" /\ pc = "done") =>
        \A p \in Proposers : partner[p] /= None =>
            \A r \in Proposees :
                (Lists(p, r) /\ Pos(p, r) < Pos(p, partner[p]) /\ Lists(r, p)) =>
                    ~(partner[r] = None \/ ranking[r][p] < ranking[r][partner[r]])

C1_Witness ==
    /\ mode = "stable" /\ pc = "done" /\ WellFormed
    /\ \E p \in Proposers, r \in Proposees :
          /\ partner[p] /= None
          /\ Lists(p, r) /\ Pos(p, r) < Pos(p, partner[p]) /\ Lists(r, p)
          /\ partner[r] /= None
          /\ rank[p] = 2

\* C2 as stated: the number of loop iterations never exceeds the sum of the
\* lengths of the proposers' preference lists.
C2_Original == WellFormed => iterations <= SumLens(Proposers)

\* C2 amended: the number of loop iterations never exceeds the sum of the
\* lengths of the proposers' preference lists plus the number of proposers;
\* the proposals alone are bounded by the sum of the lengths and the
\* exhaustion removals by the number of proposers.
C2_IterationBound ==
    WellFormed =>
        /\ iterations <= SumLens(Proposers) + Cardinality(Proposers)
        /\ Cardinality(proposals) <= SumLens(Proposers)
        /\ iterations = Cardinality(proposals) + Cardinality(exhausted)

C2_Witness ==
    /\ WellFormed /\ pc = "done"
    /\ iterations = SumLens(Proposers) + Cardinality(Proposers)

MatchedOrCursorAtEnd ==
    \A p \in Proposers :
        partner[p] /= None \/ proposalIndex[p] = Len(priorities[p])

MatchedOrFoundExhausted ==
    \A p \in Proposers : partner[p] /= None \/ p \in exhausted

\* C3 as stated: the loop eventually halts, and `unmatched` is empty exactly
\* when every proposer has a partner or its cursor equals the length of its
\* preference list.
C3_Original ==
    /\ <>(Len(unmatched) = 0)
    /\ []((Len(unmatched) = 0) <=> MatchedOrCursorAtEnd)

\* C3 amended: the loop eventually halts, and `unmatched` is empty exactly
\* when every proposer has a partner or has been removed from `unmatched` by
\* an iteration in which nextProposal returned None; such a proposer's
\* cursor equals the length of its preference list.
C3_HaltsAtFixedPoint ==
    /\ <>(Len(unmatched) = 0)
    /\ []((Len(unmatched) = 0) <=> MatchedOrFoundExhausted)
    /\ [](\A p \in exhausted : proposalIndex[p] = Len(priorities[p]))

C3_Witness ==
    /\ WellFormed /\ pc = "done" /\ Len(unmatched) = 0
    /\ \E p \in Proposers : p \in exhausted
    /\ \E p \in Proposers : partner[p] /= None

\* C4: at every quiescent point a proposer p has partner q exactly when the
\* proposee q has partner p.
C4_PartnersSymmetric ==
    \A p \in Proposers, q \in Proposees : (partner[p] = q) <=> (partner[q] = p)

C4_Witness ==
    /\ \E p \in Proposers : rank[p] = DumpedRank /\ partner[p] = None
    /\ \E p \in Proposers, q \in Proposees :
          partner[p] = q /\ partner[q] = p /\ rank[q] = 1

\* C5: a proposer's cursor never decreases, and the proposal the loop is
\* about to make has not been made before.
C5_CursorMonotone ==
    [][/\ \A p \in Proposers : proposalIndex'[p] >= proposalIndex[p]
       /\ \A n \in Proposees \cup UnknownIds :
            Proposing(n) => <<unmatched[1], n>> \notin proposals]_vars

C5_Witness ==
    /\ Len(unmatched) > 0
    /\ rank[unmatched[1]] = DumpedRank
    /\ proposalIndex[unmatched[1]] >= 1
    /\ \E n \in Proposees : Proposing(n)

\* C6: greedy mode: no step changes the partner of an agent that has one,
\* and no step appends to `unmatched`.
C6_GreedyNeverDisplaces ==
    [][mode = "greedy" =>
        /\ \A a \in Agents : partner[a] /= None => partner'[a] = partner[a]
        /\ unmatched' = unmatched \/ unmatched' = Tail(unmatched)]_vars

C6_Witness ==
    /\ mode = "greedy"
    /\ \E q \in Proposees, p \in Proposers :
          /\ partner[q] /= None
          /\ <<p, q>> \in proposals
          /\ Lists(q, p)
          /\ ranking[q][p] < ranking[q][partner[q]]

UnknownGoal == \E n \in UnknownIds : Proposing(n)

\* C7 as stated: a proposal to an identifier no proposee carries is a plain
\* rejection: the cursor advances and the run goes on.
C7_Original ==
    [][UnknownGoal =>
        /\ proposalIndex'[unmatched[1]] = proposalIndex[unmatched[1]] + 1
        /\ pc' = "loop"
        /\ unmatched' = unmatched /\ partner' = partner /\ rank' = rank]_vars

\* C7 amended: a proposal to an identifier no proposee carries ends the run
\* in an error in that iteration: the cursor has advanced, `unmatched` and
\* every partner and rank are as before, and no later step happens.
C7_UnknownIdIsError ==
    [][/\ UnknownGoal =>
            /\ proposalIndex'[unmatched[1]] = proposalIndex[unmatched[1]] + 1
            /\ pc' = "error"
            /\ unmatched' = unmatched /\ partner' = partner /\ rank' = rank
       /\ pc = "error" => UNCHANGED vars
       /\ pc' = "error" => UnknownGoal]_vars

C7_Witness ==
    /\ pc = "error"
    /\ \E pr \in proposals : pr[2] \in UnknownIds
    /\ \E p \in Proposers : partner[p] /= None

\* C8: at every quiescent point a proposer's rank is unset exactly when its
\* partner is unset.
C8_Original ==
    \A p \in Proposers : (rank[p] = NoRank) <=> (partner[p] = None)

\* C9: at every quiescent point a matched proposer's rank is its cursor, the
\* 1-based position of its partner in its list, and a matched proposee's
\* rank is 1 + ranking[partner], the 1-based position of its partner.
C9_RankIsPosition ==
    /\ \A p \in Proposers : partner[p] /= None =>
          /\ rank[p] = proposalIndex[p]
          /\ rank[p] \in 1..Len(priorities[p])
          /\ priorities[p][rank[p]] = partner[p]
    /\ \A q \in Proposees : partner[q] /= None =>
          /\ rank[q] = 1 + ranking[q][partner[q]]
          /\ rank[q] \in 1..Len(priorities[q])
          /\ priorities[q][rank[q]] = partner[q]

C9_Witness ==
    \E p \in Proposers, q \in Proposees :
        partner[p] = q /\ rank[p] = 2 /\ rank[q] = 2

\* C10: stable mode, well-formed input: whichever unmatched proposer each
\* iteration picks, the terminal pairing is the one the run of the code
\* (always the first of `unmatched`) ends with.
C10_OrderIndependent ==
    (mode = "stable" /\ pc = "done") =>
        partner = FifoFinal.partner

C10_Witness ==
    /\ mode = "stable" /\ pc = "done" /\ WellFormed /\ ~fifo
    /\ \E p \in Proposers : rank[p] = DumpedRank
    /\ \E p \in Proposers : partner[p] /= None

AllAgree ==
    /\ Proposers = {"A", "B"}
    /\ mode = "stable"
    /\ priorities = [a \in Agents |-> IF a \in Proposers
                                      THEN <<"X", "Y">> ELSE <<"A", "B">>]

\* C12 as stated: on that input the stable run ends with A-X and B-Y and
\* both proposers hold rank 1.
C12_Original ==
    (AllAgree /\ pc = "done") =>
        /\ partner["A"] = "X" /\ partner["B"] = "Y"
        /\ rank["A"] = 1 /\ rank["B"] = 1

\* C12: on that input the stable run ends with A-X and B-Y; A holds rank 1
\* and B, rejected by X, holds rank 2 (Y is B's second choice, and B is
\* Y's second choice); the run never raises.
C12_AllAgreeOutcome ==
    AllAgree =>
        /\ pc /= "error"
        /\ pc = "done" =>
              /\ partner["A"] = "X" /\ partner["X"] = "A"
              /\ partner["B"] = "Y" /\ partner["Y"] = "B"
              /\ rank["A"] = 1 /\ rank["X"] = 1
              /\ rank["B"] = 2 /\ rank["Y"] = 2
              /\ <<"B", "X">> \in proposals

C12_Witness == AllAgree /\ pc = "done" /\ iterations = 3

\* The worked example in which X prefers the later proposer B.
LateFavourite ==
    /\ Proposers = {"A", "B"}
    /\ priorities = [a \in Agents |->
                        CASE a = "A" -> <<"X">>
                          [] a = "B" -> <<"X", "Y">>
                          [] a = "X" -> <<"B", "A">>
                          [] OTHER   -> <<"B">>]

\* C13: stable mode on that input, A proposing first: X accepts A, B's
\* proposal to X dumps A, A is then found exhausted and removed, and the run
\* ends with B-X while A and Y have no partner.
C13_StableDumpsEarlyProposer ==
    (LateFavourite /\ mode = "stable") =>
        /\ pc /= "error"
        /\ iterations = 0 => unmatched = <<"A", "B">>
        /\ iterations = 1 =>
              /\ proposals = {<<"A", "X">>}
              /\ partner["A"] = "X" /\ partner["X"] = "A"
              /\ unmatched = <<"B">>
        /\ iterations = 2 =>
              /\ proposals = {<<"A", "X">>, <<"B", "X">>}
              /\ partner["B"] = "X" /\ partner["X"] = "B"
              /\ partner["A"] = None
              /\ unmatched = <<"A">>
              /\ exhausted = {}
        /\ iterations = 3 =>
              /\ exhausted = {"A"}
              /\ proposals = {<<"A", "X">>, <<"B", "X">>}
              /\ unmatched = <<>>
        /\ iterations <= 3
        /\ pc = "done" =>
              /\ iterations = 3
              /\ partner["B"] = "X" /\ partner["X"] = "B"
              /\ partner["A"] = None /\ partner["Y"] = None

C13_Witness ==
    /\ LateFavourite /\ mode = "stable" /\ pc = "done"
    /\ "A" \in exhausted /\ partner["X"] = "B"

\* C14: greedy mode on the same input: X accepts A, B's proposal to X is
\* rejected although X lists B before A, and A-X is still paired when the
\* run ends, so B and X each prefer the other to what they hold.
C14_GreedyKeepsEarlyProposer ==
    (LateFavourite /\ mode = "greedy") =>
        /\ pc /= "error"
        /\ ranking["X"]["B"] < ranking["X"]["A"]
        /\ iterations = 1 =>
              /\ proposals = {<<"A", "X">>}
              /\ partner["A"] = "X" /\ partner["X"] = "A"
        /\ iterations = 2 =>
              /\ proposals = {<<"A", "X">>, <<"B", "X">>}
              /\ partner["A"] = "X" /\ partner["X"] = "A"
              /\ partner["B"] = None
              /\ unmatched = <<"B">>
        /\ pc = "done" =>
              /\ <<"B", "X">> \in proposals
              /\ partner["A"] = "X" /\ partner["X"] = "A"
              /\ partner["B"] /= "X"
              /\ partner["B"] /= None => Pos("B", "X") < Pos("B", partner["B"])

C14_Witness ==
    /\ LateFavourite /\ mode = "greedy" /\ pc = "done"
    /\ partner["X"] = "A" /\ <<"B", "X">> \in proposals

RECURSIVE SumRanks(_)
SumRanks(S) ==
    IF S = {} THEN 0
    ELSE LET a == CHOOSE x \in S : TRUE
         IN  rank[a] + SumRanks(S \ {a})

MatchedProposers == {p \in Proposers : partner[p] /= None}

\* C15: the report on the terminal state counts the proposers that have a
\* partner, its proposer utility is the sum of their ranks, its proposee
\* utility the sum of the ranks of their partners, and its total the sum of
\* the two; proposers without a partner add nothing.
C15_ReportTotals ==
    pc = "done" =>
        LET report == printPairings(State)
        IN  /\ report.matchCt = Cardinality(MatchedProposers)
            /\ report.proposerUtility = SumRanks(MatchedProposers)
            /\ report.proposeeUtility =
                  SumRanks({partner[p] : p \in MatchedProposers})
            /\ report.totalUtility =
                  report.proposerUtility + report.proposeeUtility

C15_Witness ==
    /\ pc = "done"
    /\ printPairings(State).matchCt = 1
    /\ printPairings(State).totalUtility = 3
    /\ \E p \in Proposers : partner[p] = None /\ rank[p] = DumpedRank

\* r lists a and ranks it strictly before every partner it currently holds
Prefers(r, a) ==
    /\ Lists(r, a)
    /\ \/ partner[r] = None
       \/ \E j, k \in 1..Len(priorities[r]) :
             j < k /\ priorities[r][j] = a /\ priorities[r][k] = partner[r]

\* C16: in every state the run reaches, evaluateProposal(s) on any proposee
\* returns True exactly when the proposee lists s and either has no partner
\* or ranks s strictly before its partner; on True the proposee's rank
\* becomes the 1-based position of s in its list, on False it keeps its
\* rank; the call yields nothing but the verdict and the rank, so the
\* partner is as before.
C16_EvaluateProposal ==
    \A q \in Proposees : \A suitor \in Proposers \cup UnknownIds :
        LET ev == evaluateProposal(q, suitor, State)
        IN  /\ DOMAIN ev = {"accept", "rank"}
            /\ ev.accept <=> Prefers(q, suitor)
            /\ ev.accept => /\ ev.rank = ranking[q][suitor] + 1
                            /\ priorities[q][ev.rank] = suitor
            /\ ~ev.accept => ev.rank = rank[q]

C16_Witness ==
    /\ mode = "stable"
    /\ \E q \in Proposees, p \in Proposers :
          /\ <<p, q>> \in proposals
          /\ rank[p] = DumpedRank
          /\ partner[q] \notin {None, p}
          /\ rank[q] = ranking[q][partner[q]] + 1
          /\ ~evaluateProposal(q, p, State).accept
          /\ ~evaluateProposal(q, partner[q], State).accept

\* C17: a proposer removed from `unmatched` because its list was exhausted
\* is in no later `unmatched`, has no partner in any later state, keeps its
\* cursor and makes no further proposal.
C17_ExhaustedIsFinal ==
    [][\A p \in exhausted' :
          /\ p \notin Range(unmatched')
          /\ partner'[p] = None
          /\ p \in exhausted =>
                /\ proposalIndex'[p] = proposalIndex[p]
                /\ rank'[p] = rank[p]
                /\ \A pr \in proposals' \ proposals : pr[1] /= p]_vars

C17_Witness ==
    /\ fifo
    /\ "A" \in exhausted /\ rank["A"] = NoRank
    /\ partner["B"] /= None

\* the policy of the current mode turns down a by r
TurnsDown(r, a) ==
    IF mode = "stable" THEN ~Prefers(r, a)
    ELSE ~(Lists(r, a) /\ partner[r] = None)

\* C18: an iteration whose proposal is rejected advances the proposing
\* proposer's cursor by one and changes nothing else: `unmatched` is the
\* same list with the same head, and every partner and every rank is as
\* before.
C18_RejectChangesCursorOnly ==
    [][\A n \in Proposees :
          (Proposing(n) /\ TurnsDown(n, unmatched[1])) =>
              /\ proposalIndex' =
                    [proposalIndex EXCEPT ![unmatched[1]] = @ + 1]
              /\ unmatched' = unmatched
              /\ partner' = partner
              /\ rank' = rank
              /\ pc' = pc]_vars

C18_Witness ==
    /\ pc = "loop" /\ Len(unmatched) > 0
    /\ \E n \in Proposees :
          LET m == unmatched[1]
          IN  /\ <<m, n>> \in proposals
              /\ proposalIndex[m] > 0
              /\ priorities[m][proposalIndex[m]] = n
              /\ rank[m] = NoRank
              /\ Lists(n, m)
              /\ partner[n] \notin {None, m}

\* C19: `unmatched` holds no proposer twice and no proposer that has a
\* partner, and it holds every proposer that has no partner and has not been
\* removed for exhaustion; so the proposer that was just accepted is gone
\* from the list once the iteration ends, even when a dumped proposer was
\* appended first.
C19_UnmatchedIsExact ==
    /\ \A j, k \in 1..Len(unmatched) : j /= k => unmatched[j] /= unmatched[k]
    /\ Range(unmatched) =
          {p \in Proposers : partner[p] = None /\ p \notin exhausted}

C19_Witness ==
    /\ pc = "loop" /\ Len(unmatched) > 0
    /\ rank[unmatched[Len(unmatched)]] = DumpedRank
    /\ \E p \in Proposers, q \in Proposees :
          /\ partner[p] = q
          /\ <<unmatched[Len(unmatched)], q>> \in proposals

\* C20: stable mode, terminal state: every proposee that a partnerless
\* proposer lists, and that lists the proposer back, has a partner that it
\* ranks strictly before that proposer.
C20_NoBlockingPairForUnmatched ==
    (mode = "stable" /\ pc = "done") =>
        \A p \in Proposers : partner[p] = None =>
            \A r \in Proposees : (Lists(p, r) /\ Lists(r, p)) =>
                /\ partner[r] /= None
                /\ ranking[r][partner[r]] < ranking[r][p]

C20_Witness ==
    /\ mode = "stable" /\ pc = "done"
    /\ \E p \in Proposers, r \in Proposees :
          /\ partner[p] = None
          /\ Lists(p, r) /\ Lists(r, p)
          /\ partner[r] /= None

====
